---- MODULE Spec2Model ----
(***************************************************************************)
(* Model of the embedded Lua game runtime of Squad Party                   *)
(* (client/lib/luaInterpreter.ts): the LuaInterpreter class, its value     *)
(* marshaling (pushValue / getValue / getTable) and the runner facade      *)
(* returned by createGameRunner.                                           *)
(*                                                                         *)
(* Host (JavaScript) values and guest (Lua) values are tagged records, one *)
(* field name per type, so that values of different types are unequal.     *)
(***************************************************************************)
EXTENDS Integers, Sequences, FiniteSets, TLC

(***************************************************************************)
(* Bounds of the model.                                                    *)
(***************************************************************************)
MaxSeqLen == 5
MaxRunners == 1
MaxEngines == 2
MaxStack == 2
MaxResidue == 2
MaxTableLen == 3
MaxCount == 3
MaxIsoRunners == 2
MaxSubmits == 2
MaxRounds == 2
MaxCalls == 2

(***************************************************************************)
(* Host values (JavaScript).  An object is the sequence of its own         *)
(* enumerable properties <<key, value>> in property order; an array is the *)
(* sequence of its elements.                                               *)
(***************************************************************************)
HNull == [t |-> "null"]
HUndefined == [t |-> "undefined"]
HBool(b) == [t |-> "boolean", b |-> b]
HNum(n) == [t |-> "number", n |-> n]
HStr(s) == [t |-> "string", s |-> s]
HObj(entries) == [t |-> "object", e |-> entries]
HArr(elems) == [t |-> "array", a |-> elems]

(***************************************************************************)
(* Guest values (Lua).  A table is the sequence of its <<key, value>>      *)
(* pairs in the order lua_next yields them; a function is named by the     *)
(* behaviour it has when called.                                           *)
(***************************************************************************)
GNil == [t |-> "nil"]
GBool(b) == [t |-> "boolean", b |-> b]
GNum(n) == [t |-> "number", n |-> n]
GStr(s) == [t |-> "string", s |-> s]
GTab(entries) == [t |-> "table", e |-> entries]
GFn(f) == [t |-> "function", f |-> f]

(***************************************************************************)
(* JavaScript primitives used by the interpreter.                          *)
(***************************************************************************)
DigitStr == <<"0", "1", "2", "3", "4", "5", "6", "7", "8", "9">>

RECURSIVE NumStr(_)
\* Number.prototype.toString for integers (property-key conversion).
NumStr(n) ==
  IF n < 0 THEN "-" \o NumStr(-n)
  ELSE IF n < 10 THEN DigitStr[n + 1]
  ELSE NumStr(n \div 10) \o DigitStr[(n % 10) + 1]

MaxIndexKey == 12
\* A property key that is a canonical array index.
IsIndexKey(k) == \E n \in 0..MaxIndexKey : NumStr(n) = k
IndexOfKey(k) == CHOOSE n \in 0..MaxIndexKey : NumStr(n) = k

SeqRange(s) == {s[i] : i \in 1..Len(s)}
HasKey(entries, k) == \E i \in 1..Len(entries) : entries[i][1] = k

\* Position at which a new property k is inserted: integer-like keys are
\* kept in ascending order before all other keys, other keys are appended.
InsertPos(entries, k) ==
  IF IsIndexKey(k)
  THEN 1 + Cardinality({i \in 1..Len(entries) :
                          /\ IsIndexKey(entries[i][1])
                          /\ IndexOfKey(entries[i][1]) < IndexOfKey(k)})
  ELSE Len(entries) + 1

\* result[key] = value on a plain object.
JSSet(entries, k, v) ==
  IF HasKey(entries, k)
  THEN [i \in 1..Len(entries) |->
          IF entries[i][1] = k THEN <<k, v>> ELSE entries[i]]
  ELSE LET p == InsertPos(entries, k)
       IN SubSeq(entries, 1, p - 1) \o <<<<k, v>>>> \o
          SubSeq(entries, p, Len(entries))

\* obj.key, undefined when the property is absent.
JSGet(obj, k) ==
  IF obj.t = "object" /\ HasKey(obj.e, k)
  THEN (CHOOSE en \in SeqRange(obj.e) : en[1] = k)[2]
  ELSE HUndefined

\* Object.entries(value) for a plain object or an array.
ObjectEntries(value) ==
  IF value.t = "array"
  THEN [i \in 1..Len(value.a) |-> <<NumStr(i - 1), value.a[i]>>]
  ELSE value.e

\* Object.values(result).
ObjectValues(entries) == [i \in 1..Len(entries) |-> entries[i][2]]

\* ToBoolean, as used by `||` and `&&`.
Truthy(x) ==
  CASE x.t \in {"null", "undefined"} -> FALSE
    [] x.t = "boolean" -> x.b
    [] x.t = "number" -> x.n # 0
    [] x.t = "string" -> x.s # ""
    [] OTHER -> TRUE

\* a || b
JSOr(a, b) == IF Truthy(a) THEN a ELSE b
\* a ?? b
JSNullish(a, b) == IF a.t \in {"null", "undefined"} THEN b ELSE a
\* typeof x
TypeOf(x) ==
  CASE x.t \in {"null", "object", "array"} -> "object"
    [] OTHER -> x.t
\* a !== b
StrictNotEqual(a, b) == a # b

(***************************************************************************)
(* The Lua C API as implemented by fengari, on values.                     *)
(***************************************************************************)
\* lua_pushboolean(L, b): the pushed value is true exactly when b is
\* non-zero.
lua_pushboolean(b) == GBool(b # 0)

\* lua_toboolean(L, idx): fengari returns the JavaScript boolean
\* !o.l_isfalse(); only nil and false are false.
lua_toboolean(g) ==
  HBool(~(g.t = "nil" \/ (g.t = "boolean" /\ ~g.b)))

\* lua_tonumber, lua_tojsstring on a value of the matching type.
lua_tonumber(g) == HNum(g.n)
lua_tojsstring(g) == HStr(g.s)

\* lua_settable(L, -3) with key k and value v on top of the stack: storing
\* nil removes the key, storing to an existing key replaces its value, a new
\* key is added after the existing ones.
lua_settable(entries, k, v) ==
  IF v.t = "nil"
  THEN SelectSeq(entries, LAMBDA en : en[1] # k)
  ELSE IF HasKey(entries, k)
  THEN [i \in 1..Len(entries) |->
          IF entries[i][1] = k THEN <<k, v>> ELSE entries[i]]
  ELSE Append(entries, <<k, v>>)

\* lua_getfield(L, -1, name) on a table.
lua_getfield(tab, name) ==
  IF HasKey(tab.e, GStr(name))
  THEN (CHOOSE en \in SeqRange(tab.e) : en[1] = GStr(name))[2]
  ELSE GNil

(***************************************************************************)
(* Marshaling: LuaInterpreter.pushValue, getValue, getTable.               *)
(***************************************************************************)
RECURSIVE pushValue(_)
RECURSIVE PushEntries(_, _, _)

\* The body of the for-loop of pushValue over Object.entries(value), from
\* entry i on, with `tab` the table under construction.
PushEntries(ents, i, tab) ==
  IF i > Len(ents) THEN tab
  ELSE PushEntries(ents, i + 1,
         lua_settable(tab, GStr(ents[i][1]), pushValue(ents[i][2])))

\* The guest value that pushValue(value) leaves on top of the stack.
pushValue(value) ==
  CASE value.t \in {"null", "undefined"} -> GNil
    [] value.t = "boolean" -> lua_pushboolean(IF value.b THEN 1 ELSE 0)
    [] value.t = "number" -> GNum(value.n)
    [] value.t = "string" -> GStr(value.s)
    [] OTHER -> GTab(PushEntries(ObjectEntries(value), 1, <<>>))

RECURSIVE getValue(_)
RECURSIVE GetTableLoop(_, _, _)

\* The while-loop of getTable from pair i on; acc carries result, isArray
\* and arrayIndex.
GetTableLoop(ents, i, acc) ==
  IF i > Len(ents) THEN acc
  ELSE LET k == ents[i][1]
           isNum == k.t = "number"
           key == IF isNum THEN NumStr(lua_tonumber(k).n)
                  ELSE lua_tojsstring(k).s
       IN GetTableLoop(ents, i + 1,
            [result |-> JSSet(acc.result, key, getValue(ents[i][2])),
             isArray |-> IF isNum
                         THEN acc.isArray /\ (lua_tonumber(k).n = acc.arrayIndex)
                         ELSE FALSE,
             arrayIndex |-> IF isNum THEN acc.arrayIndex + 1
                            ELSE acc.arrayIndex])

\* getTable without the Object.keys(result).length > 0 test.
getTableNoLengthTest(g) ==
  LET fin == GetTableLoop(g.e, 1,
               [result |-> <<>>, isArray |-> TRUE, arrayIndex |-> 1])
  IN IF fin.isArray
     THEN HArr(ObjectValues(fin.result))
     ELSE HObj(fin.result)

\* getTable that takes every table with only number keys for an array.
getTableNumericIsArray(g) ==
  LET fin == GetTableLoop(g.e, 1,
               [result |-> <<>>, isArray |-> TRUE, arrayIndex |-> 1])
  IN IF Len(g.e) > 0 /\ \A i \in 1..Len(g.e) : g.e[i][1].t = "number"
     THEN HArr(ObjectValues(fin.result))
     ELSE HObj(fin.result)

getTable(g) ==
  LET fin == GetTableLoop(g.e, 1,
               [result |-> <<>>, isArray |-> TRUE, arrayIndex |-> 1])
  IN IF fin.isArray /\ Len(fin.result) > 0
     THEN HArr(ObjectValues(fin.result))
     ELSE HObj(fin.result)

\* getValue that hands a value without host form on as an empty object.
getValueOpaqueObject(g) ==
  CASE g.t = "nil" -> HNull
    [] g.t = "boolean" -> HBool(StrictNotEqual(lua_toboolean(g), HNum(0)))
    [] g.t = "number" -> lua_tonumber(g)
    [] g.t = "string" -> lua_tojsstring(g)
    [] g.t = "table" -> getTable(g)
    [] OTHER -> HObj(<<>>)

getValue(g) ==
  CASE g.t = "nil" -> HNull
    [] g.t = "boolean" -> HBool(StrictNotEqual(lua_toboolean(g), HNum(0)))
    [] g.t = "number" -> lua_tonumber(g)
    [] g.t = "string" -> lua_tojsstring(g)
    [] g.t = "table" -> getTable(g)
    [] OTHER -> HNull

(***************************************************************************)
(* Guest functions.  A guest function is named by what it does when        *)
(* called under lua_pcall: raise a runtime error, or return one value.     *)
(***************************************************************************)
Behaviours ==
  {"error", "nil", "false", "true", "zero", "five", "emptystr", "hint",
   "function", "emptytab", "echo", "correct", "wrong", "illtyped", "array"}

\* What a guest function that awards 10 points makes of its state argument:
\* the table with 10 added to its score,
\*   state.score = (tonumber(state.score) or 0) + 10
\* and a new table {score = 10} when the argument is not a table.
Scored(st) ==
  LET old == IF st.t = "table" /\ lua_getfield(st, "score").t = "number"
             THEN lua_getfield(st, "score").n
             ELSE 0
  IN IF st.t = "table"
     THEN GTab(lua_settable(st.e, GStr("score"), GNum(old + 10)))
     ELSE GTab(<<<<GStr("score"), GNum(10)>>>>)

\* Outcome of calling guest function f with the pushed arguments: ok is
\* FALSE when the guest raises a runtime error, ret is the single result.
CallGuest(f, gargs) ==
  LET arg1 == IF Len(gargs) >= 1 THEN gargs[1] ELSE GNil
  IN CASE f = "error" -> [ok |-> FALSE, ret |-> GStr("attempt to index a nil value")]
       [] f = "nil" -> [ok |-> TRUE, ret |-> GNil]
       [] f = "false" -> [ok |-> TRUE, ret |-> GBool(FALSE)]
       [] f = "true" -> [ok |-> TRUE, ret |-> GBool(TRUE)]
       [] f = "zero" -> [ok |-> TRUE, ret |-> GNum(0)]
       [] f = "five" -> [ok |-> TRUE, ret |-> GNum(5)]
       [] f = "emptystr" -> [ok |-> TRUE, ret |-> GStr("")]
       [] f = "hint" -> [ok |-> TRUE, ret |-> GStr("starts with C")]
       [] f = "function" -> [ok |-> TRUE, ret |-> GFn("nil")]
       [] f = "emptytab" -> [ok |-> TRUE, ret |-> GTab(<<>>)]
       [] f = "echo" -> [ok |-> TRUE, ret |-> arg1]
       [] f = "correct" ->
            [ok |-> TRUE,
             ret |-> GTab(<<<<GStr("state"), Scored(arg1)>>,
                           <<GStr("correct"), GBool(TRUE)>>,
                           <<GStr("points"), GNum(10)>>>>)]
       [] f = "wrong" ->
            [ok |-> TRUE,
             ret |-> GTab(<<<<GStr("correct"), GBool(FALSE)>>,
                           <<GStr("points"), GNum(0)>>>>)]
       [] f = "illtyped" ->
            [ok |-> TRUE,
             ret |-> GTab(<<<<GStr("correct"), GStr("yes")>>,
                           <<GStr("points"), GNum(-5)>>>>)]
       [] f = "array" ->
            [ok |-> TRUE,
             ret |-> GTab(<<<<GNum(1), GStr("a")>>, <<GNum(2), GStr("b")>>>>)]

\* Outcome of calling guest function f when the guest global `counter` has
\* the value given: the function "count" adds one to that global and returns
\* a state table whose score is the new value; every other function leaves
\* the guest globals alone.
\* The functions "newstate" and "addten" are those of a script that keeps
\* the score in its state and returns the bare state from onInput:
\*   function Game.init() return {score = 0, currentWord = "party"} end
\*   function Game.onInput(state, input)
\*     if input == state.currentWord then state.score = state.score + 10 end
\*     return state
\*   end
CallGuestIn(f, gargs, counter) ==
  LET arg1 == IF Len(gargs) >= 1 THEN gargs[1] ELSE GNil
      arg2 == IF Len(gargs) >= 2 THEN gargs[2] ELSE GNil
  IN CASE f = "count" ->
            [ok |-> TRUE,
             ret |-> GTab(<<<<GStr("score"), GNum(counter + 1)>>>>),
             counter |-> counter + 1]
       [] f = "newstate" ->
            [ok |-> TRUE,
             ret |-> GTab(<<<<GStr("score"), GNum(0)>>,
                           <<GStr("currentWord"), GStr("party")>>>>),
             counter |-> counter]
       [] f = "addten" ->
            IF arg1.t # "table"
            THEN [ok |-> FALSE, ret |-> GStr("attempt to index a nil value"),
                  counter |-> counter]
            ELSE IF arg2 # lua_getfield(arg1, "currentWord")
            THEN [ok |-> TRUE, ret |-> arg1, counter |-> counter]
            ELSE IF lua_getfield(arg1, "score").t # "number"
            THEN [ok |-> FALSE,
                  ret |-> GStr("attempt to perform arithmetic on a nil value"),
                  counter |-> counter]
            ELSE [ok |-> TRUE,
                  ret |-> GTab(lua_settable(arg1.e, GStr("score"),
                                 GNum(lua_getfield(arg1, "score").n + 10))),
                  counter |-> counter]
       [] OTHER ->
            [ok |-> CallGuest(f, gargs).ok, ret |-> CallGuest(f, gargs).ret,
             counter |-> counter]

FuncNames == <<"init", "start", "onInput", "getNextChallenge", "getHint">>

\* A global Game table whose five protocol functions all behave as f.
GameOf(f) == GTab([i \in 1..Len(FuncNames) |-> <<GStr(FuncNames[i]), GFn(f)>>])

\* A global Game table whose protocol fields hold a number, not functions.
GameOfNumbers ==
  GTab([i \in 1..Len(FuncNames) |-> <<GStr(FuncNames[i]), GNum(1)>>])

(***************************************************************************)
(* Scripts.  A script is described by the outcome of luaL_dostring on its  *)
(* text, by the value the chunk assigns to the global Game (nil when it    *)
(* assigns none) and by the values its final `return` hands back.          *)
(*   ok        the chunk ran to its end                                    *)
(*   syntax    the text does not compile (status # LUA_OK)                 *)
(*   runtime   the chunk raised an error at top level (status # LUA_OK)    *)
(*   exception the host call itself threw (text that is not a string)      *)
(***************************************************************************)
Chunk(load, game, returns) ==
  [load |-> load, game |-> game, returns |-> returns]

\* The table the default template builds in its `local Game` and returns:
\* six function fields, none of them reachable through a global.
TemplateTable ==
  GTab(<<<<GStr("init"), GFn("template.init")>>,
         <<GStr("start"), GFn("template.start")>>,
         <<GStr("getRandomWord"), GFn("template.getRandomWord")>>,
         <<GStr("onInput"), GFn("template.onInput")>>,
         <<GStr("tick"), GFn("template.tick")>>,
         <<GStr("getResults"), GFn("template.getResults")>>>>)

\* The default template: `local Game = {}` ... `return Game`.
DEFAULT_LOGIC_LUA == Chunk("ok", GNil, <<TemplateTable>>)

\* Scripts that load, among them scripts that end in `return Game`: with a
\* local Game, and with a global.
ValidScripts ==
  {Chunk("ok", GameOf(f), <<>>) : f \in Behaviours}
    \cup {Chunk("ok", g, <<>>) :
            g \in {GNil, GNum(5), GStr("Game"), GTab(<<>>), GameOfNumbers}}
    \cup {DEFAULT_LOGIC_LUA,
          Chunk("ok", GNil, <<GTab(<<>>)>>),
          Chunk("ok", GameOf("echo"), <<GameOf("echo")>>)}

InvalidScripts ==
  {Chunk("syntax", GNil, <<>>),
   Chunk("runtime", GNil, <<>>),
   Chunk("runtime", GameOf("echo"), <<>>),
   Chunk("exception", GNil, <<>>)}

Scripts == ValidScripts \cup InvalidScripts

(***************************************************************************)
(* LuaInterpreter.                                                         *)
(*   L           "open" for a live lua_State, "closed" once lua_close has  *)
(*               run and this.L is null                                    *)
(*   initialized the private flag set by loadScript                        *)
(*   game        the value of the guest global Game                        *)
(*   stack       the guest stack, top last                                 *)
(*   counter     the value of the guest global the counting script keeps   *)
(*   closes      how many times lua_close has been called on the state     *)
(*   residue     how many values an error raised outside lua_pcall leaves  *)
(*               above the value that was indexed; the Lua API does not    *)
(*               define it, so each call is made under every residue       *)
(***************************************************************************)
\* new LuaInterpreter()
NewInterpreter ==
  [L |-> "open", initialized |-> FALSE, game |-> GNil, stack |-> <<>>,
   counter |-> 0, closes |-> 0, residue |-> 0]

\* The interpreter as a call may find it: under each residue an
\* unprotected error may leave.  Only indexing a Game that is neither nil,
\* a table nor a string raises outside lua_pcall, so only then is there a
\* residue to choose.
Unprotected(e) ==
  IF e.game.t \in {"nil", "table", "string"}
  THEN {e}
  ELSE {[e EXCEPT !.residue = k] : k \in 0..MaxResidue}

\* The interpreter once the chunk has run: the global Game it assigned (a
\* chunk that assigns none leaves the earlier value), its counter set to 0
\* by a chunk that keeps one in a guest global, and, when ended is TRUE,
\* the values it returned left on the stack.
ChunkRan(e, sc, ended) ==
  [e EXCEPT !.game = IF sc.game.t = "nil" THEN e.game ELSE sc.game,
            !.counter = IF /\ sc.game.t = "table"
                           /\ \E en \in SeqRange(sc.game.e) :
                                en[2] = GFn("count")
                        THEN 0 ELSE e.counter,
            !.stack = IF ended THEN e.stack \o sc.returns ELSE e.stack]

\* loadScript that refuses a chunk which leaves no global Game.
loadScriptTryChecksGame(e, sc) ==
  CASE sc.load = "exception" \/ e.L = "closed" ->
         \* luaL_dostring on a null state throws as well
         [ok |-> FALSE, e |-> e, threw |-> TRUE]
    [] sc.load = "syntax" ->
         [ok |-> FALSE, e |-> e, threw |-> FALSE]
    [] sc.load = "runtime" ->
         [ok |-> FALSE, e |-> ChunkRan(e, sc, FALSE), threw |-> FALSE]
    [] ChunkRan(e, sc, TRUE).game.t = "nil" ->
         [ok |-> FALSE, e |-> ChunkRan(e, sc, TRUE), threw |-> FALSE]
    [] OTHER ->
         [ok |-> TRUE,
          e |-> [ChunkRan(e, sc, TRUE) EXCEPT !.initialized = TRUE],
          threw |-> FALSE]

\* The try block of loadScript: the result, the interpreter afterwards and
\* whether a host exception left the block.
loadScriptTry(e, sc) ==
  CASE sc.load = "exception" \/ e.L = "closed" ->
         \* luaL_dostring on a null state throws as well
         [ok |-> FALSE, e |-> e, threw |-> TRUE]
    [] sc.load = "syntax" ->
         \* the chunk never runs; the error message is pushed by
         \* luaL_dostring and popped here
         [ok |-> FALSE, e |-> e, threw |-> FALSE]
    [] sc.load = "runtime" ->
         \* the chunk ran up to its error; the message is popped here
         [ok |-> FALSE, e |-> ChunkRan(e, sc, FALSE), threw |-> FALSE]
    [] OTHER ->
         \* luaL_dostring runs the chunk with LUA_MULTRET: what the chunk
         \* returns stays on the stack, and nothing here pops it
         [ok |-> TRUE,
          e |-> [ChunkRan(e, sc, TRUE) EXCEPT !.initialized = TRUE],
          threw |-> FALSE]

\* The catch block of loadScript: a host exception becomes `false`.
loadScriptCatch(out) ==
  IF out.threw THEN [out EXCEPT !.ok = FALSE, !.threw = FALSE] ELSE out

\* loadScript(luaCode)
loadScript(e, sc) == loadScriptCatch(loadScriptTry(e, sc))

\* destroy() that forgets lua_close.
destroyLeak(e) == e

\* destroy() without its `if (this.L)` test.
destroyAgain(e) ==
  [e EXCEPT !.L = "closed", !.game = GNil, !.stack = <<>>, !.counter = 0,
            !.closes = e.closes + 1]

\* destroy(): closes the state once; this.L becomes null.
destroy(e) ==
  IF e.L = "open"
  THEN [e EXCEPT !.L = "closed", !.game = GNil, !.stack = <<>>,
                 !.counter = 0, !.closes = e.closes + 1]
  ELSE e

\* lua_getglobal(L, name): only Game is a global the scripts define.
Global(e, name) == IF name = "Game" THEN e.game ELSE GNil

Pop(stack) == SubSeq(stack, 1, Len(stack) - 1)

\* An exit of the try block of callFunction.
Exit(result, stack, threw, path, counter) ==
  [result |-> result, stack |-> stack, threw |-> threw, path |-> path,
   counter |-> counter]

\* callFunction without its catch block.
callFunctionRethrow(out) == out

\* The catch block of callFunction: a host exception becomes null; the
\* guest stack is left as it was when the exception was thrown.
callFunctionCatch(out) ==
  IF out.threw THEN [out EXCEPT !.result = HNull, !.threw = FALSE] ELSE out

\* The try block of callFunction for a path of two segments.
callFunctionTry(e, parts, args) ==
  IF e.L = "closed"
  THEN Exit(HNull, e.stack, TRUE, "exception", e.counter)
  ELSE
  LET top1 == Global(e, parts[1])
      s1 == Append(e.stack, top1)
  IN IF top1.t = "nil"
     THEN Exit(HNull, Pop(s1), FALSE, "nil", e.counter)
     ELSE IF top1.t \notin {"table", "string"}
     THEN \* lua_getfield raises outside a protected call: the panic
          \* function throws, with Game and the residue on the stack
          Exit(HNull,
               s1 \o [i \in 1..e.residue |->
                        GStr("attempt to index a number value")],
               TRUE, "exception", e.counter)
     ELSE
     LET top2 == IF top1.t = "table" THEN lua_getfield(top1, parts[2])
                 ELSE GNil
         s2 == Append(Pop(s1), top2)
     IN IF top2.t # "function"
        THEN Exit(HNull, Pop(s2), FALSE, "notfunction", e.counter)
        ELSE
        LET gargs == [i \in 1..Len(args) |-> pushValue(args[i])]
            out == CallGuestIn(top2.f, gargs, e.counter)
            \* lua_pcall replaces the function and its arguments by one
            \* value: the result or the error message
            s3 == Append(Pop(s2), out.ret)
        IN IF ~out.ok
           THEN Exit(HNull, Pop(s3), FALSE, "pcallerror", out.counter)
           ELSE Exit(getValue(out.ret), Pop(s3), FALSE, "ok", out.counter)

callFunction(e, parts, args) ==
  IF ~e.initialized
  THEN Exit(HNull, e.stack, FALSE, "uninitialized", e.counter)
  ELSE callFunctionCatch(callFunctionTry(e, parts, args))

(***************************************************************************)
(* The runner facade returned by createGameRunner.                         *)
(***************************************************************************)
getDefaultState ==
  HObj(<<<<"score", HNum(0)>>,
         <<"timeRemaining", HNum(60)>>,
         <<"currentChallenge", HStr("")>>,
         <<"currentAnswer", HStr("")>>,
         <<"isPlaying", HBool(FALSE)>>,
         <<"wrongGuesses", HNum(0)>>,
         <<"maxWrongGuesses", HNum(6)>>,
         <<"hints", HArr(<<>>)>>>>)

\* What a runner method hands back: a value, or a host exception.
Outcome(value, c) ==
  [value |-> value, raw |-> c.result, threw |-> c.threw, stack |-> c.stack,
   path |-> c.path, counter |-> c.counter]

runnerInit(e) ==
  LET c == callFunction(e, <<"Game", "init">>, <<>>)
  IN Outcome(JSOr(c.result, getDefaultState), c)

\* start without the `|| state` fallback.
runnerStartNoFallback(e, state) ==
  LET c == callFunction(e, <<"Game", "start">>, <<state>>)
  IN Outcome(c.result, c)

runnerStart(e, state) ==
  LET c == callFunction(e, <<"Game", "start">>, <<state>>)
  IN Outcome(JSOr(c.result, state), c)

\* onInput whose fallback hands back the failed result as the state.
onInputResultWrongState(result, state) ==
  IF Truthy(result) /\ TypeOf(result) = "object"
  THEN HObj(<<<<"state", JSOr(JSGet(result, "state"), result)>>,
              <<"correct", JSNullish(JSGet(result, "correct"), HBool(FALSE))>>,
              <<"points", JSNullish(JSGet(result, "points"), HNum(0))>>>>)
  ELSE HObj(<<<<"state", result>>,
              <<"correct", HBool(FALSE)>>,
              <<"points", HNum(0)>>>>)

onInputResult(result, state) ==
  IF Truthy(result) /\ TypeOf(result) = "object"
  THEN HObj(<<<<"state", JSOr(JSGet(result, "state"), result)>>,
              <<"correct", JSNullish(JSGet(result, "correct"), HBool(FALSE))>>,
              <<"points", JSNullish(JSGet(result, "points"), HNum(0))>>>>)
  ELSE HObj(<<<<"state", state>>,
              <<"correct", HBool(FALSE)>>,
              <<"points", HNum(0)>>>>)

runnerOnInput(e, state, input) ==
  LET c == callFunction(e, <<"Game", "onInput">>, <<state, HStr(input)>>)
  IN Outcome(onInputResult(c.result, state), c)

runnerGetNextChallenge(e, state) ==
  LET c == callFunction(e, <<"Game", "getNextChallenge">>, <<state>>)
  IN Outcome(JSOr(c.result, state), c)

\* getHint with `result || ""` in place of the typeof test.
runnerGetHintTruthy(e, state) ==
  LET c == callFunction(e, <<"Game", "getHint">>, <<state>>)
  IN Outcome(JSOr(c.result, HStr("")), c)

runnerGetHint(e, state) ==
  LET c == callFunction(e, <<"Game", "getHint">>, <<state>>)
  IN Outcome(IF TypeOf(c.result) = "string" THEN c.result ELSE HStr(""), c)

(***************************************************************************)
(* State.                                                                  *)
(*   engines  every LuaInterpreter constructed so far, in creation order   *)
(*   runners  the engines for which createGameRunner returned a runner     *)
(*   last     the last host call and what it handed back                   *)
(*   failed   whether some createGameRunner call has returned null         *)
(*   mpc, hv, gv, back  the marshaling round trip: a host value, the guest *)
(*            value pushValue makes of it, and what getValue reads back    *)
(*   screen   the state of a mounted SoloGamePlayScreen                    *)
(*   play     the state of a mounted GamePlayScreen (multiplayer round)    *)
(*   ctx      the session list of GameProvider and its joinSession calls   *)
(***************************************************************************)
VARIABLES engines, runners, last, failed, mpc, hv, gv, back, screen, play, ctx

vars == <<engines, runners, last, failed, mpc, hv, gv, back, screen, play,
         ctx>>
clientVars == <<play, ctx>>
runnerVars == <<engines, runners, last, failed>>
marshalVars == <<mpc, hv, gv, back>>

\* Inputs of the runner calls.
SmallState ==
  HObj(<<<<"score", HNum(0)>>, <<"currentChallenge", HStr("CAT")>>>>)
HostStates == {getDefaultState, SmallState}
Inputs == {"", "CAT"}

NoCall ==
  [op |-> "none", eng |-> 0, load |-> "", state |-> HNull, input |-> "",
   value |-> HNull, raw |-> HNull, threw |-> FALSE, path |-> ""]

RunnerInit ==
  /\ engines = <<>>
  /\ runners = {}
  /\ last = NoCall
  /\ failed = FALSE

MarshalIdle ==
  /\ mpc = "idle"
  /\ hv = HNull
  /\ gv = GNil
  /\ back = HNull

\* No SoloGamePlayScreen is mounted.
NoScreen ==
  [mounted |-> FALSE, builtIn |-> FALSE, type |-> "", duration |-> 0,
   artifact |-> [ok |-> FALSE, metadata |-> FALSE, hasLogic |-> FALSE,
                 script |-> Chunk("ok", GNil, <<>>), duration |-> 0,
                 type |-> ""],
   customGame |-> FALSE, isLoadingCustomGame |-> FALSE, crashed |-> FALSE,
   luaRunner |-> 0,
   luaGameState |-> HNull, luaError |-> FALSE, timeLeft |-> 0, score |-> 0,
   currentWordIndex |-> 0, isGameOver |-> FALSE, correctWords |-> 0,
   durationEffect |-> FALSE, round |-> 0, calls |-> <<>>, submits |-> 0,
   ev |-> "none"]

ScreenIdle == screen = NoScreen

\* currentSession is null.
NoSession ==
  [id |-> -1, players |-> <<>>, status |-> "", currentGameIndex |-> 0]

\* No GamePlayScreen is mounted.
NoPlay ==
  [mounted |-> FALSE, timer |-> FALSE, timeLeft |-> 0, score |-> 0,
   wordsCompleted |-> 0, currentWord |-> "", closureScore |-> 0,
   closureSessions |-> <<>>, closureSession |-> NoSession,
   endCalls |-> 0, endCall |-> 0, reported |-> 0, submits |-> 0,
   ev |-> "none"]

\* No GameProvider is mounted.
NoCtx ==
  [mounted |-> FALSE, sessions |-> <<>>, currentSession |-> NoSession,
   server |-> <<>>, calls |-> {}, issued |-> 0, joins |-> 0,
   stale |-> FALSE, ev |-> "none"]

Init ==
  RunnerInit /\ MarshalIdle /\ ScreenIdle /\ play = NoPlay /\ ctx = NoCtx

\* The interpreter a runner's methods close over: the one its own
\* createGameRunner call constructed.
interpreterShared(r) == 1
interpreterOf(r) == r

\* createGameRunner(luaCode), with at most maxRunners live runners among at
\* most MaxEngines interpreters constructed.
CreateRunner(sc, maxRunners) ==
  /\ LET ld == loadScript(NewInterpreter, sc)
         id == Len(engines) + 1
         \* a host exception leaves createGameRunner before destroy() runs
         returned == ld.ok /\ ~ld.threw
     IN /\ Len(engines) < MaxEngines
        /\ returned => Cardinality(runners) < maxRunners
        /\ engines' = Append(engines,
                        IF ld.ok \/ ld.threw THEN ld.e ELSE destroy(ld.e))
        /\ runners' = IF returned THEN runners \cup {id} ELSE runners
        /\ failed' = (failed \/ ~returned)
        /\ last' = [NoCall EXCEPT !.op = "create", !.eng = id,
                                  !.load = sc.load, !.threw = ld.threw,
                                  !.value = IF returned THEN HStr("runner")
                                            ELSE HNull]
  /\ UNCHANGED <<marshalVars, screen, clientVars>>

CreateGameRunner(sc) == CreateRunner(sc, MaxRunners)

\* A runner method may be called: the caps of the model are not reached.
Callable(r) ==
  /\ r \in runners
  /\ Len(engines[interpreterOf(r)].stack) < MaxStack
  /\ engines[interpreterOf(r)].counter < MaxCount

\* The record of a runner call and the interpreter afterwards.
Called(op, r, state, input, out) ==
  /\ engines' = [engines EXCEPT ![interpreterOf(r)].stack = out.stack,
                                ![interpreterOf(r)].counter = out.counter]
  /\ last' = [op |-> op, eng |-> r, load |-> "ok", state |-> state,
              input |-> input, value |-> out.value, raw |-> out.raw,
              threw |-> out.threw, path |-> out.path]
  /\ UNCHANGED <<runners, failed>>
  /\ UNCHANGED <<marshalVars, screen, clientVars>>

CallInit(r) ==
  /\ Callable(r)
  /\ \E e \in Unprotected(engines[interpreterOf(r)]) :
       Called("init", r, HNull, "", runnerInit(e))

CallStart(r, state) ==
  /\ Callable(r)
  /\ \E e \in Unprotected(engines[interpreterOf(r)]) :
       Called("start", r, state, "", runnerStart(e, state))

CallOnInput(r, state, input) ==
  /\ Callable(r)
  /\ \E e \in Unprotected(engines[interpreterOf(r)]) :
       Called("onInput", r, state, input, runnerOnInput(e, state, input))

CallGetNextChallenge(r, state) ==
  /\ Callable(r)
  /\ \E e \in Unprotected(engines[interpreterOf(r)]) :
       Called("getNextChallenge", r, state, "",
              runnerGetNextChallenge(e, state))

CallGetHint(r, state) ==
  /\ Callable(r)
  /\ \E e \in Unprotected(engines[interpreterOf(r)]) :
       Called("getHint", r, state, "", runnerGetHint(e, state))

Next ==
  \/ \E sc \in Scripts : CreateGameRunner(sc)
  \/ \E r \in DOMAIN engines : CallInit(r)
  \/ \E r \in DOMAIN engines, st \in HostStates : CallStart(r, st)
  \/ \E r \in DOMAIN engines, st \in HostStates, inp \in Inputs :
       CallOnInput(r, st, inp)
  \/ \E r \in DOMAIN engines, st \in HostStates : CallGetNextChallenge(r, st)
  \/ \E r \in DOMAIN engines, st \in HostStates : CallGetHint(r, st)

Spec == Init /\ [][Next]_vars

(***************************************************************************)
(* Two runners alive at once, on scripts that keep state in a guest        *)
(* global (count) or not (echo).                                           *)
(***************************************************************************)
IsoScripts ==
  {Chunk("ok", GameOf("count"), <<>>), Chunk("ok", GameOf("echo"), <<>>)}

IsoNext ==
  \/ \E sc \in IsoScripts : CreateRunner(sc, MaxIsoRunners)
  \/ \E r \in DOMAIN engines : CallInit(r)
  \/ \E r \in DOMAIN engines, st \in HostStates : CallStart(r, st)
  \/ \E r \in DOMAIN engines, st \in HostStates, inp \in Inputs :
       CallOnInput(r, st, inp)
  \/ \E r \in DOMAIN engines, st \in HostStates : CallGetNextChallenge(r, st)
  \/ \E r \in DOMAIN engines, st \in HostStates : CallGetHint(r, st)

IsoSpec == Init /\ [][IsoNext]_vars

(***************************************************************************)
(* LuaInterpreter used directly: constructed, loaded, called through the   *)
(* five call paths of the runner, and destroyed, in any order.             *)
(***************************************************************************)
InterpScripts ==
  {Chunk("ok", GameOf("echo"), <<>>),
   Chunk("ok", GameOf("hint"), <<>>),
   Chunk("syntax", GNil, <<>>),
   DEFAULT_LOGIC_LUA}

\* The runner method of name op on interpreter e.
runnerMethod(op, e, state, input) ==
  CASE op = "init" -> runnerInit(e)
    [] op = "start" -> runnerStart(e, state)
    [] op = "onInput" -> runnerOnInput(e, state, input)
    [] op = "getNextChallenge" -> runnerGetNextChallenge(e, state)
    [] OTHER -> runnerGetHint(e, state)

\* new LuaInterpreter()
InterpNew ==
  /\ Len(engines) < MaxRunners
  /\ engines' = Append(engines, NewInterpreter)
  /\ last' = [NoCall EXCEPT !.op = "new", !.eng = Len(engines) + 1]
  /\ UNCHANGED <<runners, failed>>
  /\ UNCHANGED <<marshalVars, screen, clientVars>>

\* loadScript, on a new interpreter or on one that has run a chunk.
InterpLoad(r, sc) ==
  /\ r \in DOMAIN engines
  /\ Len(engines[r].stack) < MaxStack
  /\ LET ld == loadScript(engines[r], sc)
     IN /\ engines' = [engines EXCEPT ![r] = ld.e]
        /\ last' = [NoCall EXCEPT !.op = "load", !.eng = r,
                                  !.load = sc.load, !.threw = ld.threw,
                                  !.value = HBool(ld.ok)]
  /\ UNCHANGED <<runners, failed>>
  /\ UNCHANGED <<marshalVars, screen, clientVars>>

InterpDestroy(r) ==
  /\ r \in DOMAIN engines
  /\ engines' = [engines EXCEPT ![r] = destroy(engines[r])]
  /\ last' = [NoCall EXCEPT !.op = "destroy", !.eng = r]
  /\ UNCHANGED <<runners, failed>>
  /\ UNCHANGED <<marshalVars, screen, clientVars>>

InterpCall(r, op, state, input) ==
  /\ r \in DOMAIN engines
  /\ Len(engines[r].stack) < MaxStack
  /\ \E e \in Unprotected(engines[r]) :
       Called(op, r, state, input, runnerMethod(op, e, state, input))

InterpNext ==
  \/ InterpNew
  \/ \E r \in DOMAIN engines, sc \in InterpScripts : InterpLoad(r, sc)
  \/ \E r \in DOMAIN engines : InterpDestroy(r)
  \/ \E r \in DOMAIN engines, st \in HostStates, inp \in Inputs :
       \E op \in {"init", "start", "onInput", "getNextChallenge", "getHint"} :
         InterpCall(r, op, st, inp)

InterpSpec == Init /\ [][InterpNext]_vars

(***************************************************************************)
(* The marshaling round trip on its own: a host value is pushed into the   *)
(* guest (pushValue) and read back (getValue).                             *)
(***************************************************************************)
Scalars ==
  {HNull, HBool(TRUE), HBool(FALSE), HNum(0), HNum(5), HStr(""), HStr("a")}

\* Host objects are built by assignment, so that their properties are in
\* property order.
Record1(k, v) == HObj(JSSet(<<>>, k, v))
Record2(k1, v1, k2, v2) == HObj(JSSet(JSSet(<<>>, k1, v1), k2, v2))

RecordKeys == {"a", "b", "1"}

FlatRecords ==
  {Record1(k, v) : k \in RecordKeys, v \in Scalars}
    \cup {Record2("a", v1, k2, v2) :
            v1 \in Scalars, k2 \in {"b", "1"}, v2 \in {HNum(5), HBool(FALSE)}}

NestedRecords ==
  {Record1("state", r) : r \in {Record1("a", v) : v \in Scalars}}

ScalarRecordValues == Scalars \cup FlatRecords \cup NestedRecords

\* Ordered sequences of up to MaxSeqLen elements.
SeqElems == {HStr("a"), HNum(5)}
Sequences0 ==
  {HArr(s) : s \in UNION {[1..n -> SeqElems] : n \in 0..MaxSeqLen}}
NonEmptySequences == {x \in Sequences0 : Len(x.a) > 0}
SequenceRecords == {Record1("hints", x) : x \in NonEmptySequences}

MarshalInputs ==
  ScalarRecordValues \cup Sequences0 \cup SequenceRecords
    \cup {HObj(<<>>)}

\* Guest tables as a script can build them: up to MaxTableLen distinct keys,
\* integers and strings, in any traversal order.  The value stored under a
\* key tells the keys apart.
TableKeys == {GNum(1), GNum(2), GNum(3), GStr("a"), GStr("1")}
ValueAt(k) == IF k.t = "number" THEN GNum(10 * k.n) ELSE GStr("s" \o k.s)
GuestTables ==
  {GTab([i \in 1..Len(ks) |-> <<ks[i], ValueAt(ks[i])>>]) :
     ks \in {q \in UNION {[1..n -> TableKeys] : n \in 0..MaxTableLen} :
               \A i, j \in 1..Len(q) : i # j => q[i] # q[j]}}

MarshalInit ==
  /\ RunnerInit
  /\ ScreenIdle
  /\ play = NoPlay
  /\ ctx = NoCtx
  /\ back = HNull
  /\ \/ /\ mpc = "start"
        /\ hv \in MarshalInputs
        /\ gv = GNil
     \/ /\ mpc = "guest"
        /\ hv = HNull
        /\ gv \in GuestTables

Push ==
  /\ mpc = "start"
  /\ gv' = pushValue(hv)
  /\ mpc' = "pushed"
  /\ UNCHANGED <<hv, back>>
  /\ UNCHANGED <<runnerVars, screen, clientVars>>

Get ==
  /\ mpc = "pushed"
  /\ back' = getValue(gv)
  /\ mpc' = "done"
  /\ UNCHANGED <<hv, gv>>
  /\ UNCHANGED <<runnerVars, screen, clientVars>>

\* getValue on a table returned by the guest.
GetGuest ==
  /\ mpc = "guest"
  /\ back' = getValue(gv)
  /\ mpc' = "read"
  /\ UNCHANGED <<hv, gv>>
  /\ UNCHANGED <<runnerVars, screen, clientVars>>

MarshalNext == Push \/ Get \/ GetGuest

MarshalSpec == MarshalInit /\ [][MarshalNext]_vars

(***************************************************************************)
(* SoloGamePlayScreen, followed while it is mounted.  The fields of        *)
(* `screen` are the component's state variables, and                       *)
(*   builtIn, type, duration  the built-in game the route names, if any    *)
(*   artifact        what the fetch of the custom game's artifacts yields  *)
(*   customGame      whether setCustomGame has stored the reply            *)
(*   crashed         a render has thrown and the screen was taken down     *)
(*   luaRunner       the engine of the runner held, 0 for null             *)
(*   durationEffect  the effect on [game?.duration] is due to run          *)
(*   round, calls    the current round and the runner methods called in    *)
(*                   it, in call order                                     *)
(*   submits         the submissions handled in the round                  *)
(*   ev              the handler or effect that ran last                   *)
(***************************************************************************)
DefaultDuration == 60

WORD_SCRAMBLE_WORDS ==
  <<"PARTY", "GAMES", "SQUAD", "FRIEND", "PLAYER", "WINNER", "SCORE", "FAST",
    "TIME", "WORD">>

SPEED_TYPING_WORDS ==
  <<"quick", "brown", "fox", "jumps", "lazy", "dog", "party", "game", "squad",
    "friend", "player", "winner">>

\* What the player may have typed when submitting.
SoloInputs == {"", "party", "QUICK"}

\* String.prototype.toUpperCase / toLowerCase on the strings in play.
toUpperCase(str) == IF str = "party" THEN "PARTY" ELSE str
toLowerCase(str) ==
  CASE str = "QUICK" -> "quick"
    [] str = "PARTY" -> "party"
    [] OTHER -> str

\* The built-in games a route can name, each by its type and duration:
\* word_scramble, word_chain and anagram_hunt are word games of 60 seconds.
BuiltInGames ==
  {[type |-> "word", duration |-> 60], [type |-> "speed", duration |-> 45],
   [type |-> "trivia", duration |-> 30], [type |-> "memory", duration |-> 45]}

\* A script whose Game.init counts its calls in a guest global and whose
\* Game.onInput accepts every answer.
RoundGame ==
  GTab(<<<<GStr("init"), GFn("count")>>,
         <<GStr("start"), GFn("echo")>>,
         <<GStr("onInput"), GFn("correct")>>,
         <<GStr("getNextChallenge"), GFn("echo")>>,
         <<GStr("getHint"), GFn("hint")>>>>)

\* A script that keeps the score in its state and whose onInput returns
\* the bare state.
BareStateGame ==
  GTab(<<<<GStr("init"), GFn("newstate")>>,
         <<GStr("start"), GFn("echo")>>,
         <<GStr("onInput"), GFn("addten")>>>>)

\* The logicLua a custom game may carry: the default template it was
\* created with, or what its author saved since.
SoloScripts ==
  {DEFAULT_LOGIC_LUA,
   Chunk("ok", RoundGame, <<>>),
   Chunk("ok", BareStateGame, <<>>),
   Chunk("ok", GameOf("error"), <<>>),
   Chunk("syntax", GNil, <<>>)}

CustomDurations == {0, 2, 60}

\* metadata.type of a custom game: the template's "custom", or "speed".
CustomTypes == {"custom", "speed"}

\* Outcomes of the artifacts request.
\*   ok        FALSE when the request or the parsing of its reply fails
\*   metadata  FALSE when the reply carries no metadata object: the error
\*             replies {error: ...} of status 404 and 500
\*   hasLogic  the reply has a non-empty logicLua
Artifacts ==
  {NoScreen.artifact}
    \cup {[ok |-> TRUE, metadata |-> FALSE, hasLogic |-> FALSE,
           script |-> Chunk("ok", GNil, <<>>), duration |-> 0, type |-> ""]}
    \cup {[ok |-> TRUE, metadata |-> FALSE, hasLogic |-> TRUE,
           script |-> sc, duration |-> 0, type |-> ""] : sc \in SoloScripts}
    \cup {[ok |-> TRUE, metadata |-> TRUE, hasLogic |-> FALSE,
           script |-> Chunk("ok", GNil, <<>>), duration |-> d, type |-> ty] :
            d \in CustomDurations, ty \in CustomTypes}
    \cup {[ok |-> TRUE, metadata |-> TRUE, hasLogic |-> TRUE,
           script |-> sc, duration |-> d, type |-> ty] :
            sc \in SoloScripts, d \in CustomDurations, ty \in CustomTypes}

\* The screen after its first render, for a built-in game and for a custom
\* one (the load effect has started the fetch).
MountBuiltIn(g) ==
  [NoScreen EXCEPT !.mounted = TRUE, !.builtIn = TRUE, !.type = g.type,
                   !.duration = g.duration,
                   !.timeLeft = IF g.duration # 0 THEN g.duration
                                ELSE DefaultDuration,
                   !.round = 1, !.ev = "mount"]

MountCustom(a) ==
  [NoScreen EXCEPT !.mounted = TRUE, !.artifact = a,
                   !.isLoadingCustomGame = TRUE,
                   !.timeLeft = DefaultDuration,
                   !.round = 1, !.ev = "mount"]

SoloInit ==
  /\ RunnerInit
  /\ MarshalIdle
  /\ play = NoPlay
  /\ ctx = NoCtx
  /\ screen \in {MountBuiltIn(g) : g \in BuiltInGames}
                  \cup {MountCustom(a) : a \in Artifacts}

\* `game` is the built-in game or the one made of customGame.
GameKnown(s) == s.builtIn \/ s.customGame

\* game?.duration, 0 standing for a missing or zero duration.
GameDuration(s) ==
  CASE s.builtIn -> s.duration
    [] s.customGame -> s.artifact.duration
    [] OTHER -> 0

\* game?.duration || 60
DurationOrDefault(s) ==
  IF GameDuration(s) # 0 THEN GameDuration(s) ELSE DefaultDuration

\* game?.type, "" standing for undefined.
GameType(s) ==
  CASE s.builtIn -> s.type
    [] s.customGame -> s.artifact.type
    [] OTHER -> ""

isCustomGame(s) == ~s.builtIn /\ s.customGame

\* Building `game` throws: customGame is set and has no metadata.
RenderThrows(s) == ~s.builtIn /\ s.customGame /\ ~s.artifact.metadata

\* The view the component renders.
View(s) ==
  CASE s.crashed -> "crashed"
    [] s.isLoadingCustomGame -> "loading"
    [] ~GameKnown(s) -> "notfound"
    [] s.luaError -> "error"
    [] s.isGameOver -> "over"
    [] OTHER -> "play"

\* The screen once the state a handler has set is rendered: a render that
\* throws takes the screen down, and its effects never run.
Rendered(s) ==
  IF RenderThrows(s)
  THEN [s EXCEPT !.mounted = FALSE, !.crashed = TRUE,
                 !.durationEffect = FALSE]
  ELSE s

\* The interpreter after a runner method has returned.
After(e, out) == [e EXCEPT !.stack = out.stack, !.counter = out.counter]

\* A round that calls start before init.
startRoundStartFirst(e) ==
  LET Third(e2, o2) ==
        CHOOSE rd \in
          {[e |-> After(e2, o3), state |-> o3.value,
            calls |-> <<"start", "init", "getNextChallenge">>] :
             o3 \in {runnerGetNextChallenge(e2, o2.value)}} : TRUE
      Second(e1) ==
        CHOOSE rd \in {Third(After(e1, o2), o2) : o2 \in {runnerInit(e1)}} :
          TRUE
  IN CHOOSE rd \in
       {Second(After(e, o1)) : o1 \in {runnerStart(e, getDefaultState)}} :
       TRUE

\* runner.init(), runner.start(initialState),
\* runner.getNextChallenge(startedState): the interpreter afterwards and
\* the state handed to setLuaGameState.
\* (Each outcome is bound as a value before the next call uses it.)
startRound(e) ==
  LET Third(e2, o2) ==
        CHOOSE rd \in
          {[e |-> After(e2, o3), state |-> o3.value,
            calls |-> <<"init", "start", "getNextChallenge">>] :
             o3 \in {runnerGetNextChallenge(e2, o2.value)}} : TRUE
      Second(e1, o1) ==
        CHOOSE rd \in
          {Third(After(e1, o2), o2) : o2 \in {runnerStart(e1, o1.value)}} :
          TRUE
  IN CHOOSE rd \in {Second(After(e, o1), o1) : o1 \in {runnerInit(e)}} : TRUE

\* The callbacks of the artifacts request in the load effect.
FetchResolved ==
  /\ screen.mounted
  /\ screen.isLoadingCustomGame
  /\ \E ld \in {loadScript(NewInterpreter, screen.artifact.script)} :
     \E rd \in {startRound(ld.e)} :
     LET a == screen.artifact
         id == Len(engines) + 1
     IN CASE ~a.ok ->
               /\ screen' = [screen EXCEPT !.isLoadingCustomGame = FALSE,
                                           !.ev = "loadFailed"]
               /\ UNCHANGED <<engines, runners, failed>>
          [] a.ok /\ ~a.hasLogic ->
               /\ screen' = Rendered([screen EXCEPT
                                !.customGame = TRUE,
                                !.isLoadingCustomGame = FALSE,
                                !.durationEffect = TRUE,
                                !.ev = "load"])
               /\ UNCHANGED <<engines, runners, failed>>
          [] a.ok /\ a.hasLogic /\ ld.ok ->
               /\ engines' = Append(engines, rd.e)
               /\ runners' = runners \cup {id}
               /\ screen' = Rendered([screen EXCEPT
                                !.customGame = TRUE,
                                !.isLoadingCustomGame = FALSE,
                                !.durationEffect = TRUE,
                                !.luaRunner = id,
                                !.luaGameState = rd.state,
                                !.calls = rd.calls,
                                !.ev = "load"])
               /\ UNCHANGED failed
          [] OTHER ->
               /\ engines' = Append(engines, destroy(ld.e))
               /\ failed' = TRUE
               /\ screen' = Rendered([screen EXCEPT
                                !.customGame = TRUE,
                                !.isLoadingCustomGame = FALSE,
                                !.durationEffect = TRUE,
                                !.luaError = TRUE,
                                !.ev = "load"])
               /\ UNCHANGED runners
  /\ UNCHANGED <<last, marshalVars, clientVars>>

\* The effect on [game?.duration].
DurationEffect ==
  /\ screen.mounted
  /\ screen.durationEffect
  /\ screen' = [screen EXCEPT
       !.durationEffect = FALSE,
       !.timeLeft = IF /\ GameDuration(screen) # 0
                       /\ screen.timeLeft = DefaultDuration
                       /\ GameDuration(screen) # DefaultDuration
                    THEN GameDuration(screen)
                    ELSE screen.timeLeft,
       !.ev = "durationEffect"]
  /\ UNCHANGED <<runnerVars, marshalVars, clientVars>>

\* An interval that keeps running at 0.
TickBelowZero ==
  /\ screen.mounted
  /\ screen.timeLeft > -2
  /\ screen' = [screen EXCEPT !.timeLeft = screen.timeLeft - 1, !.ev = "tick"]
  /\ UNCHANGED <<runnerVars, marshalVars, clientVars>>

\* The interval callback of the timer effect: the interval exists while
\* timeLeft is positive.
Tick ==
  /\ screen.mounted
  /\ screen.timeLeft > 0
  /\ screen' = [screen EXCEPT !.timeLeft = screen.timeLeft - 1, !.ev = "tick"]
  /\ UNCHANGED <<runnerVars, marshalVars, clientVars>>

\* The timer effect once a render has seen timeLeft <= 0.
TimerEffect ==
  /\ screen.mounted
  /\ screen.timeLeft <= 0
  /\ ~screen.isGameOver
  /\ screen' = [screen EXCEPT !.isGameOver = TRUE, !.ev = "timerEffect"]
  /\ UNCHANGED <<runnerVars, marshalVars, clientVars>>

\* A submission that is never taken to be correct.
resultCorrectNever(result) == FALSE

\* if (result.correct)
resultCorrect(result) == Truthy(JSGet(result, "correct"))

\* handleSubmit below its isGameOver test.
SubmitBody(inp) ==
  IF isCustomGame(screen) /\ screen.luaRunner # 0 /\ Truthy(screen.luaGameState)
  THEN \E o \in {runnerOnInput(engines[interpreterOf(screen.luaRunner)],
                                screen.luaGameState, inp)} :
       \E n \in {runnerGetNextChallenge(
                   After(engines[interpreterOf(screen.luaRunner)], o),
                   JSGet(o.value, "state"))} :
       LET r == interpreterOf(screen.luaRunner)
           e1 == After(engines[r], o)
           result == o.value
       IN IF resultCorrect(result)
          THEN /\ engines' = [engines EXCEPT ![r] = After(e1, n)]
               /\ screen' = [screen EXCEPT
                    !.score = screen.score + JSGet(result, "points").n,
                    !.correctWords = screen.correctWords + 1,
                    !.luaGameState = n.value,
                    !.calls = screen.calls \o <<"onInput", "getNextChallenge">>,
                    !.submits = screen.submits + 1,
                    !.ev = "submitLua"]
          ELSE /\ engines' = [engines EXCEPT ![r] = e1]
               /\ screen' = [screen EXCEPT
                    !.luaGameState = JSGet(result, "state"),
                    !.calls = Append(screen.calls, "onInput"),
                    !.submits = screen.submits + 1,
                    !.ev = "submitLua"]
  ELSE LET currentWord ==
             WORD_SCRAMBLE_WORDS[(screen.currentWordIndex
                                    % Len(WORD_SCRAMBLE_WORDS)) + 1]
           currentTypingWord ==
             SPEED_TYPING_WORDS[(screen.currentWordIndex
                                   % Len(SPEED_TYPING_WORDS)) + 1]
           isCorrect ==
             IF GameType(screen) = "speed"
             THEN toLowerCase(inp) = toLowerCase(currentTypingWord)
             ELSE toUpperCase(inp) = currentWord
           points == IF GameType(screen) = "speed" THEN 10 ELSE Len(inp) * 10
       IN /\ screen' = [screen EXCEPT
               !.score = IF isCorrect THEN screen.score + points
                         ELSE screen.score,
               !.correctWords = IF isCorrect THEN screen.correctWords + 1
                                ELSE screen.correctWords,
               !.currentWordIndex = IF isCorrect
                                    THEN screen.currentWordIndex + 1
                                    ELSE screen.currentWordIndex,
               !.submits = screen.submits + 1,
               !.ev = "submitBuiltIn"]
          /\ UNCHANGED engines

\* handleSubmit without its isGameOver test.
handleSubmitUnguarded(inp) ==
  /\ screen.mounted
  /\ View(screen) \in {"play", "over"}
  /\ screen.submits < MaxSubmits
  /\ SubmitBody(inp)
  /\ UNCHANGED <<runners, last, failed, marshalVars, clientVars>>

handleSubmit(inp) ==
  /\ screen.mounted
  /\ View(screen) \in {"play", "over"}
  /\ screen.submits < MaxSubmits
  /\ IF screen.isGameOver
     THEN /\ screen' = [screen EXCEPT !.submits = screen.submits + 1,
                                      !.ev = "submitIgnored"]
          /\ UNCHANGED engines
     ELSE SubmitBody(inp)
  /\ UNCHANGED <<runners, last, failed, marshalVars, clientVars>>

handlePlayAgain ==
  /\ screen.mounted
  /\ View(screen) = "over"
  /\ screen.round < MaxRounds
  /\ \E rd \in {IF screen.luaRunner # 0
                THEN startRound(engines[interpreterOf(screen.luaRunner)])
                ELSE startRound(NewInterpreter)} :
     LET r == interpreterOf(screen.luaRunner)
         custom == isCustomGame(screen) /\ screen.luaRunner # 0
     IN /\ engines' = IF custom THEN [engines EXCEPT ![r] = rd.e] ELSE engines
        /\ screen' = [screen EXCEPT
             !.timeLeft = DurationOrDefault(screen),
             !.score = 0,
             !.currentWordIndex = 0,
             !.isGameOver = FALSE,
             !.correctWords = 0,
             !.luaGameState = IF custom THEN rd.state
                              ELSE screen.luaGameState,
             !.round = screen.round + 1,
             !.calls = IF custom THEN rd.calls ELSE <<>>,
             !.submits = 0,
             !.ev = "playAgain"]
  /\ UNCHANGED <<runners, last, failed, marshalVars, clientVars>>

\* handleExit: navigation.goBack() unmounts the screen.
handleExit ==
  /\ screen.mounted
  /\ View(screen) # "loading"
  /\ screen' = [screen EXCEPT !.mounted = FALSE, !.ev = "exit"]
  /\ UNCHANGED <<runnerVars, marshalVars, clientVars>>

SoloNext ==
  \/ FetchResolved
  \/ DurationEffect
  \/ Tick
  \/ TimerEffect
  \/ \E inp \in SoloInputs : handleSubmit(inp)
  \/ handlePlayAgain
  \/ handleExit

SoloSpec == SoloInit /\ [][SoloNext]_vars

\* Effects run after the render that scheduled them.
SoloLiveSpec == SoloSpec /\ WF_vars(TimerEffect)

(***************************************************************************)
(* GameProvider: the session list, the current session and the calls of    *)
(* createSession, joinSession, leaveSession, startGame, endGame and        *)
(* loadSessions.  Each call reads `sessions` and `currentSession` as       *)
(* rendered when it was called, awaits the server, and then writes a list  *)
(* made from what it read.  Of a session the model keeps the id, the       *)
(* players (by id), the status and currentGameIndex.  The fields of `ctx`: *)
(*   sessions  the sessions state                                          *)
(*   currentSession  the currentSession state, NoSession for null          *)
(*   server    the rows of the server's sessions table                     *)
(*   calls     the calls awaiting the server: the list each one read, the  *)
(*             session it sends and will write, whether the server has     *)
(*             answered, whether the request failed, and for loadSessions  *)
(*             the rows of the reply                                       *)
(*   issued    the calls made so far, the one of the mount effect aside    *)
(*   joins     the joinSession calls that found room and went to the       *)
(*             server                                                      *)
(*   stale     the call that wrote last had read a list other than the     *)
(*             one it replaced                                             *)
(***************************************************************************)
MaxPlayers == 4

JoinPlayers == {"p1", "p2"}

\* A session another device has created on the server and two more have
\* joined.
Elsewhere ==
  [id |-> 0, players |-> <<"host0", "p3", "p4">>, status |-> "waiting",
   currentGameIndex |-> 0]

\* sessions.find((s) => s.id === sessionId): its index, 0 when absent.
FindSession(sessions, sid) ==
  IF \E i \in DOMAIN sessions : sessions[i].id = sid
  THEN CHOOSE i \in DOMAIN sessions : sessions[i].id = sid
  ELSE 0

\* sessions.map((s) => (s.id === sessionId ? updatedSession : s))
ReplaceSession(sessions, sid, updatedSession) ==
  [i \in DOMAIN sessions |->
     IF sessions[i].id = sid THEN updatedSession ELSE sessions[i]]

\* sessions.filter((s) => s.id !== currentSession.id)
RemoveSession(sessions, sid) == SelectSeq(sessions, LAMBDA x : x.id # sid)

\* joinSession that admits a player to a session of any size.
canJoinAlways(session) == TRUE

\* session.players.length < 4
canJoin(session) == Len(session.players) < MaxPlayers

\* A call that has sent its request.
Sent(kind, no, sid, session) ==
  [kind |-> kind, no |-> no, sid |-> sid, read |-> ctx.sessions,
   session |-> session, answered |-> FALSE, failed |-> FALSE, reply |-> <<>>]

\* The provider after its first render: the mount effect has called
\* loadSessions.
MountProvider(rows) ==
  [NoCtx EXCEPT !.mounted = TRUE, !.server = rows,
                !.calls = {[kind |-> "load", no |-> 0, sid |-> 0,
                            read |-> <<>>, session |-> NoSession,
                            answered |-> FALSE, failed |-> FALSE,
                            reply |-> <<>>]},
                !.ev = "mount"]

CtxInit ==
  /\ RunnerInit
  /\ MarshalIdle
  /\ ScreenIdle
  /\ play = NoPlay
  /\ ctx = MountProvider(<<Elsewhere>>)

\* createSession up to its await.
CreateSessionStart ==
  /\ ctx.mounted
  /\ ctx.issued < MaxCalls
  /\ ctx' = [ctx EXCEPT
       !.issued = ctx.issued + 1,
       !.calls = ctx.calls \cup
                   {Sent("create", ctx.issued + 1, ctx.issued + 1,
                         [id |-> ctx.issued + 1, players |-> <<"host">>,
                          status |-> "waiting", currentGameIndex |-> 0])},
       !.ev = "createStart"]
  /\ UNCHANGED <<runnerVars, marshalVars, screen, play>>

\* joinSession up to its await; nothing happens when the session is not
\* found or is full.
JoinSessionStart(sid, player) ==
  /\ ctx.mounted
  /\ ctx.issued < MaxCalls
  /\ LET i == FindSession(ctx.sessions, sid)
     IN IF i # 0 /\ canJoin(ctx.sessions[i])
        THEN ctx' = [ctx EXCEPT
               !.issued = ctx.issued + 1,
               !.joins = ctx.joins + 1,
               !.calls = ctx.calls \cup
                           {Sent("join", ctx.issued + 1, sid,
                                 [ctx.sessions[i] EXCEPT
                                    !.players = Append(@, player)])},
               !.ev = "joinStart"]
        ELSE ctx' = [ctx EXCEPT !.issued = ctx.issued + 1,
                                !.ev = "joinRefused"]
  /\ UNCHANGED <<runnerVars, marshalVars, screen, play>>

\* leaveSession up to its await.
LeaveSessionStart ==
  /\ ctx.mounted
  /\ ctx.currentSession # NoSession
  /\ ctx.issued < MaxCalls
  /\ ctx' = [ctx EXCEPT
       !.calls = ctx.calls \cup
                   {Sent("leave", ctx.issued + 1, ctx.currentSession.id,
                         ctx.currentSession)},
       !.issued = ctx.issued + 1,
       !.ev = "leaveStart"]
  /\ UNCHANGED <<runnerVars, marshalVars, screen, play>>

\* startGame up to its await.
StartGameStart ==
  /\ ctx.mounted
  /\ ctx.currentSession # NoSession
  /\ ctx.issued < MaxCalls
  /\ ctx' = [ctx EXCEPT
       !.calls = ctx.calls \cup
                   {Sent("start", ctx.issued + 1, ctx.currentSession.id,
                         [ctx.currentSession EXCEPT !.status = "playing"])},
       !.issued = ctx.issued + 1,
       !.ev = "startStart"]
  /\ UNCHANGED <<runnerVars, marshalVars, screen, play>>

\* endGame up to its await, in a provider that stands at cx, with the
\* sessions and currentSession its closure holds: nothing without a current
\* session; else the players keep their places, currentGameIndex goes up by
\* one and the request is sent.
endGame(cx, sessions, currentSession) ==
  IF currentSession = NoSession
  THEN cx
  ELSE [cx EXCEPT
         !.calls = cx.calls \cup
                     {[kind |-> "end", no |-> cx.issued + 1,
                       sid |-> currentSession.id, read |-> sessions,
                       session |-> [currentSession EXCEPT
                                      !.currentGameIndex = @ + 1],
                       answered |-> FALSE, failed |-> FALSE,
                       reply |-> <<>>]},
         !.issued = cx.issued + 1,
         !.ev = "endStart"]

\* endGame called with no screen of the model mounted, up to its await.
EndGameStart ==
  /\ ctx.mounted
  /\ ctx.currentSession # NoSession
  /\ ctx.issued < MaxCalls
  /\ ctx' = endGame(ctx, ctx.sessions, ctx.currentSession)
  /\ UNCHANGED <<runnerVars, marshalVars, screen, play>>

\* refreshSessions: loadSessions up to its await.
RefreshSessionsStart ==
  /\ ctx.mounted
  /\ ctx.issued < MaxCalls
  /\ ctx' = [ctx EXCEPT
       !.calls = ctx.calls \cup {Sent("load", ctx.issued + 1, 0, NoSession)},
       !.issued = ctx.issued + 1,
       !.ev = "loadStart"]
  /\ UNCHANGED <<runnerVars, marshalVars, screen, play>>

\* The rows of the sessions table once the server has handled the request
\* of call c: POST inserts the session, PUT sets players, status and
\* currentGameIndex of the row of that id, DELETE removes the row.
ServerRows(rows, c) ==
  CASE c.kind = "create" -> Append(rows, c.session)
    [] c.kind \in {"join", "start", "end"} ->
         ReplaceSession(rows, c.sid, c.session)
    [] c.kind = "leave" -> RemoveSession(rows, c.sid)
    [] OTHER -> rows

\* The server handles the request of call c, or the request fails.
ServerAnswers(c, ok) ==
  /\ c \in ctx.calls
  /\ ~c.answered
  /\ ctx' = [ctx EXCEPT
       !.server = IF ok THEN ServerRows(ctx.server, c) ELSE ctx.server,
       !.calls = (ctx.calls \ {c}) \cup
                   {[c EXCEPT
                       !.answered = TRUE,
                       !.failed = ~ok,
                       \* GET /api/sessions: the rows that are waiting
                       !.reply = IF ok /\ c.kind = "load"
                                 THEN SelectSeq(ctx.server,
                                        LAMBDA x : x.status = "waiting")
                                 ELSE <<>>]},
       !.ev = "server"]
  /\ UNCHANGED <<runnerVars, marshalVars, screen, play>>

\* The rest of a call once the server has answered or the request has
\* failed.  loadSessions sets the list to the reply, and on failure finds
\* nothing stored to fall back on.
CallResolved(c) ==
  /\ c \in ctx.calls
  /\ c.answered
  /\ ctx' = [ctx EXCEPT
       !.sessions =
          CASE c.kind = "create" -> Append(c.read, c.session)
            [] c.kind = "leave" -> RemoveSession(c.read, c.sid)
            [] c.kind = "load" -> IF c.failed THEN ctx.sessions ELSE c.reply
            [] OTHER -> ReplaceSession(c.read, c.sid, c.session),
       !.currentSession =
          CASE c.kind = "leave" -> NoSession
            [] c.kind = "load" -> ctx.currentSession
            [] OTHER -> c.session,
       !.calls = ctx.calls \ {c},
       !.stale = (c.kind # "load" /\ c.read # ctx.sessions),
       !.ev = CASE c.kind = "create" -> "createDone"
                [] c.kind = "join" -> "joinDone"
                [] c.kind = "leave" -> "leaveDone"
                [] c.kind = "start" -> "startDone"
                [] c.kind = "end" -> "endDone"
                [] OTHER -> "loadDone"]
  /\ UNCHANGED <<runnerVars, marshalVars, screen, play>>

CtxNext ==
  \/ CreateSessionStart
  \/ \E sid \in 0..MaxCalls, player \in JoinPlayers :
       JoinSessionStart(sid, player)
  \/ LeaveSessionStart
  \/ StartGameStart
  \/ EndGameStart
  \/ RefreshSessionsStart
  \/ \E c \in ctx.calls, ok \in BOOLEAN : ServerAnswers(c, ok)
  \/ \E c \in ctx.calls : CallResolved(c)

CtxSpec == CtxInit /\ [][CtxNext]_vars

(***************************************************************************)
(* GamePlayScreen, the round of a multiplayer session.  The fields of      *)
(* `play` are the component's state variables, and                         *)
(*   timer         the interval registered by the mount effect is active   *)
(*   closureScore  the `score` that handleGameEnd of the first render,     *)
(*                 the one the interval callback holds, closes over        *)
(*   closureSessions, closureSession  the `sessions` and `currentSession`  *)
(*                 that the endGame of that render closes over             *)
(*   endCalls, reported  the calls of endGame and the score last passed    *)
(*   endCall       the number of the provider call that endGame awaits,    *)
(*                 0 when it sent none                                     *)
(*   submits       the submissions handled                                 *)
(* Of the players of a session the model keeps the ids, so the score that  *)
(* endGame adds to a player shows in `reported` only.                      *)
(***************************************************************************)
PlayDuration == 60

\* The words getNextWord may draw (two of SAMPLE_WORDS) and what the player
\* may have typed.
PlayWords == {"PARTY", "SQUAD"}
PlayInputs == {"party", "SQUAD"}

\* The screen after its first render and its mount effects, under a
\* provider that rendered cx.
MountPlay(word, cx) ==
  LET first == [NoPlay EXCEPT !.mounted = TRUE, !.timer = TRUE,
                              !.timeLeft = PlayDuration, !.score = 0,
                              !.currentWord = word, !.ev = "mount"]
  IN [first EXCEPT !.closureScore = first.score,
                   !.closureSessions = cx.sessions,
                   !.closureSession = cx.currentSession]

\* The providers a round is played under: with no current session, and
\* with a current session, created by this device and started or not, that
\* the list and the server hold.
PlayProviders ==
  {[NoCtx EXCEPT !.mounted = TRUE, !.ev = "mount"]}
    \cup {[NoCtx EXCEPT !.mounted = TRUE, !.sessions = <<s>>,
                        !.currentSession = s, !.server = <<s>>,
                        !.ev = "mount"] :
            s \in {[id |-> 1, players |-> <<"host">>, status |-> st,
                    currentGameIndex |-> 0] : st \in {"waiting", "playing"}}}

PlayInit ==
  /\ RunnerInit
  /\ MarshalIdle
  /\ ScreenIdle
  /\ ctx \in PlayProviders
  /\ play \in {MountPlay(w, ctx) : w \in PlayWords}

\* Math.max(100, 200 - (60 - timeLeft) * 2)
PlayPoints(timeLeft) ==
  IF 200 - (60 - timeLeft) * 2 > 100 THEN 200 - (60 - timeLeft) * 2 ELSE 100

\* The interval callback: the updater passed to setTimeLeft, and
\* handleGameEnd up to its await, that is endGame up to its own await: with
\* a current session the request is sent in the same step.
PlayTick ==
  /\ play.mounted
  /\ play.timer
  /\ IF play.timeLeft <= 1
     THEN /\ play' = [play EXCEPT
                 !.timer = FALSE,
                 !.timeLeft = 0,
                 !.endCalls = play.endCalls + 1,
                 !.endCall = IF play.closureSession = NoSession THEN 0
                             ELSE ctx.issued + 1,
                 !.reported = play.closureScore,
                 !.ev = "end"]
          /\ ctx' = endGame(ctx, play.closureSessions, play.closureSession)
     ELSE /\ play' = [play EXCEPT !.timeLeft = play.timeLeft - 1,
                                  !.ev = "tick"]
          /\ UNCHANGED ctx
  /\ UNCHANGED <<runnerVars, marshalVars, screen>>

\* handleSubmit of GamePlayScreen.
PlaySubmit(inp) ==
  /\ play.mounted
  /\ play.submits < MaxSubmits
  /\ IF toUpperCase(inp) = play.currentWord
     THEN \E w \in PlayWords :
            play' = [play EXCEPT
              !.score = play.score + PlayPoints(play.timeLeft),
              !.wordsCompleted = play.wordsCompleted + 1,
              !.currentWord = w,
              !.submits = play.submits + 1,
              !.ev = "submitCorrect"]
     ELSE play' = [play EXCEPT !.submits = play.submits + 1,
                               !.ev = "submitWrong"]
  /\ UNCHANGED <<runnerVars, marshalVars, screen, ctx>>

\* handleSkip: getNextWord draws another word.
PlaySkip ==
  /\ play.mounted
  /\ \E w \in PlayWords : play' = [play EXCEPT !.currentWord = w, !.ev = "skip"]
  /\ UNCHANGED <<runnerVars, marshalVars, screen, ctx>>

\* handleGameEnd after its await: once endGame has returned, which with a
\* current session is after the server's answer and the writes to sessions
\* and currentSession, navigation.replace unmounts the screen.
PlayEndResolved ==
  /\ play.mounted
  /\ play.endCalls > 0
  /\ \A c \in ctx.calls : c.no # play.endCall
  /\ play' = [play EXCEPT !.mounted = FALSE, !.timer = FALSE,
                          !.ev = "replaced"]
  /\ UNCHANGED <<runnerVars, marshalVars, screen, ctx>>

PlayNext ==
  \/ PlayTick
  \/ \E inp \in PlayInputs : PlaySubmit(inp)
  \/ PlaySkip
  \/ \E c \in ctx.calls, ok \in BOOLEAN : ServerAnswers(c, ok)
  \/ \E c \in ctx.calls : CallResolved(c)
  \/ PlayEndResolved

PlaySpec == PlayInit /\ [][PlayNext]_vars

(***************************************************************************)
(* Properties.                                                             *)
(***************************************************************************)
RunnerOps == {"init", "start", "onInput", "getNextChallenge", "getHint"}

\* The guest call Game.<fname> fails: Game is not a table, the field is not
\* a function, or the function raises a runtime error.
GuestCallFails(game, fname) ==
  \/ game.t # "table"
  \/ lua_getfield(game, fname).t # "function"
  \/ lua_getfield(game, fname).f = "error"

\* The value the guest function Game.<fname> returns for host arguments args.
GuestReturn(game, fname, args) ==
  CallGuest(lua_getfield(game, fname).f,
            [i \in 1..Len(args) |-> pushValue(args[i])]).ret

FailClosed(state) ==
  HObj(<<<<"state", state>>, <<"correct", HBool(FALSE)>>,
         <<"points", HNum(0)>>>>)

RECURSIVE StructEq(_, _)
\* Structural (deep) equality of host values; property order is ignored.
StructEq(x, y) ==
  IF x.t # y.t THEN FALSE
  ELSE CASE x.t = "object" ->
              /\ {en[1] : en \in SeqRange(x.e)} = {en[1] : en \in SeqRange(y.e)}
              /\ \A en \in SeqRange(x.e) : StructEq(en[2], JSGet(y, en[1]))
         [] x.t = "array" ->
              /\ Len(x.a) = Len(y.a)
              /\ \A i \in 1..Len(x.a) : StructEq(x.a[i], y.a[i])
         [] OTHER -> x = y

\* C1: createGameRunner returns null without throwing when loading fails,
\* the engine it created is then closed, and a call with a valid script
\* returns a runner on a live, initialized engine whatever failed before.
CreateRunnerLoadFailure ==
  last.op = "create" =>
    /\ ~last.threw
    /\ last.load # "ok" =>
         /\ last.value = HNull
         /\ last.eng \notin runners
         /\ engines[last.eng].L = "closed"
    /\ last.load = "ok" =>
         /\ last.value # HNull
         /\ last.eng \in runners
         /\ engines[last.eng].L = "open"
         /\ engines[last.eng].initialized

\* A valid script yields a runner after an earlier load failure.
CreateAfterFailure ==
  /\ last.op = "create"
  /\ last.load = "ok"
  /\ last.value # HNull
  /\ failed
  /\ Len(engines) = 2
  /\ engines[1].L = "closed"

\* C2: when the guest call Game.onInput fails, onInput returns exactly
\* {state: the input state, correct: false, points: 0}, for every input.
OnInputFailsClosed ==
  (last.op = "onInput" /\ GuestCallFails(engines[last.eng].game, "onInput")) =>
    /\ ~last.threw
    /\ last.value = FailClosed(last.state)

\* Game.onInput raised a runtime error on the empty input.
OnInputGuestErrorSeen ==
  /\ last.op = "onInput"
  /\ last.path = "pcallerror"
  /\ last.input = ""
  /\ last.value = FailClosed(last.state)

\* C3: init returns the default state when the guest call fails or returns
\* nil, a boolean, a number or a string, and the guest's value when that
\* value marshals to a record.
InitDefaultUnlessRecord ==
  last.op = "init" =>
    LET game == engines[last.eng].game
    IN IF GuestCallFails(game, "init")
       THEN last.value = getDefaultState
       ELSE LET ret == GuestReturn(game, "init", <<>>)
            IN /\ ret.t \in {"nil", "boolean", "number", "string"} =>
                    last.value = getDefaultState
               /\ getValue(ret).t = "object" => last.value = getValue(ret)

\* C4: start and getNextChallenge return the input state when the guest call
\* fails or the function is not defined.
StartAndNextKeepState ==
  (/\ last.op \in {"start", "getNextChallenge"}
   /\ GuestCallFails(engines[last.eng].game, last.op)) =>
    /\ ~last.threw
    /\ last.value = last.state

\* Game.start raised a runtime error and the input state came back.
StartGuestErrorSeen ==
  /\ last.op = "start"
  /\ last.path = "pcallerror"
  /\ last.value = last.state

\* C5: getHint returns the guest's string when the guest call succeeds with
\* a string, and the empty string in every other case.
GetHintStringOrEmpty ==
  last.op = "getHint" =>
    LET game == engines[last.eng].game
    IN /\ ~last.threw
       /\ IF /\ ~GuestCallFails(game, "getHint")
             /\ GuestReturn(game, "getHint", <<last.state>>).t = "string"
          THEN last.value =
                 HStr(GuestReturn(game, "getHint", <<last.state>>).s)
          ELSE last.value = HStr("")

\* Game.getHint returned a number and the hint is the empty string.
GetHintNonStringSeen ==
  /\ last.op = "getHint"
  /\ last.path = "ok"
  /\ last.raw.t = "number"
  /\ last.raw.n # 0
  /\ last.value = HStr("")

\* C6: no runner call throws into the host, whatever the guest script does.
RunnerNeverThrows ==
  last.op \in RunnerOps => ~last.threw

\* A host exception inside callFunction (Game is a number) was caught while
\* serving onInput.
ExceptionCaughtSeen ==
  /\ last.op = "onInput"
  /\ last.path = "exception"
  /\ engines[last.eng].game.t = "number"
  /\ ~last.threw

\* C7: every onInput result is well typed: state is a record, correct is a
\* boolean and points is a non-negative number.
OnInputWellTyped ==
  last.op = "onInput" =>
    /\ JSGet(last.value, "state").t = "object"
    /\ JSGet(last.value, "correct").t = "boolean"
    /\ JSGet(last.value, "points").t = "number"
    /\ JSGet(last.value, "points").n >= 0

\* C8: a host value built from nil, booleans, numbers, strings and non-empty
\* records of these comes back from pushValue then getValue structurally
\* equal to itself.
RoundTripScalarsRecords ==
  (mpc = "done" /\ hv \in ScalarRecordValues) => StructEq(back, hv)

\* C9: a non-empty ordered sequence, or a record whose field is one, comes
\* back from pushValue then getValue as the same ordered sequence.
RoundTripSequences ==
  (mpc = "done" /\ hv \in NonEmptySequences \cup SequenceRecords) =>
    StructEq(back, hv)

\* C10: pushValue turns a sequence of length N into a table whose keys are
\* exactly the integers 1..N, element i (from 0) at key i+1, and the empty
\* sequence into the empty table.
PushSequenceIntegerKeys ==
  (mpc = "pushed" /\ hv.t = "array") =>
    /\ gv.t = "table"
    /\ {en[1] : en \in SeqRange(gv.e)} = {GNum(i) : i \in 1..Len(hv.a)}
    /\ \A i \in 1..Len(hv.a) :
         \E en \in SeqRange(gv.e) :
           en[1] = GNum(i) /\ en[2] = pushValue(hv.a[i])

\* The keys of a guest table, and the string form getTable gives a key.
KeysOf(g) == {en[1] : en \in SeqRange(g.e)}
KeyStr(k) == IF k.t = "number" THEN NumStr(k.n) ELSE k.s
\* The key set is the dense integer run 1..N with N >= 1.
IsDenseRun(g) ==
  /\ Len(g.e) > 0
  /\ KeysOf(g) = {GNum(i) : i \in 1..Len(g.e)}
\* The value stored under key k.
RawGet(g, k) == (CHOOSE en \in SeqRange(g.e) : en[1] = k)[2]

\* C11: getTable yields an ordered sequence exactly when the table is
\* non-empty and its key set is 1..N, whatever the traversal order, and the
\* sequence lists the values in key order.
ArrayIffDenseKeySet ==
  mpc = "read" =>
    /\ (back.t = "array") <=> IsDenseRun(gv)
    /\ back.t = "array" =>
         /\ Len(back.a) = Len(gv.e)
         /\ \A i \in 1..Len(back.a) : back.a[i] = getValue(RawGet(gv, GNum(i)))

\* C12: an empty guest table reads back as an empty record, and so do an
\* empty host sequence and an empty host record after a round trip.
EmptyTableIsRecord ==
  /\ (mpc = "read" /\ gv = GTab(<<>>)) => back = HObj(<<>>)
  /\ (mpc = "done" /\ hv \in {HArr(<<>>), HObj(<<>>)}) =>
       (gv = GTab(<<>>) /\ back = HObj(<<>>))

\* The empty sequence came back as the empty record.
EmptySequenceRoundTripSeen ==
  /\ mpc = "done"
  /\ hv = HArr(<<>>)
  /\ back = HObj(<<>>)

\* A table that is sparse, string-keyed or mixed.
IsRecordShaped(g) ==
  /\ Len(g.e) > 0
  /\ \/ \E k \in KeysOf(g) : k.t # "number"
     \/ KeysOf(g) # {GNum(i) : i \in 1..Len(g.e)}

\* C13 as stated: a sparse, string-keyed or mixed table reads back as a
\* record with one entry for every key of the guest table.
RecordKeepsEveryEntry ==
  (mpc = "read" /\ IsRecordShaped(gv)) =>
    /\ back.t = "object"
    /\ {en[1] : en \in SeqRange(back.e)} = {KeyStr(k) : k \in KeysOf(gv)}
    /\ Len(back.e) = Len(gv.e)

\* C13 as amended: the record has one entry for every distinct string form
\* of the guest keys, holding the value of the last traversed key with that
\* string form.
RecordKeyedByStringForm ==
  (mpc = "read" /\ IsRecordShaped(gv)) =>
    /\ back.t = "object"
    /\ {en[1] : en \in SeqRange(back.e)} = {KeyStr(k) : k \in KeysOf(gv)}
    /\ Len(back.e) = Cardinality({KeyStr(k) : k \in KeysOf(gv)})
    /\ \A i \in 1..Len(gv.e) :
         (\A j \in (i + 1)..Len(gv.e) : KeyStr(gv.e[j][1]) # KeyStr(gv.e[i][1]))
           => JSGet(back, KeyStr(gv.e[i][1])) = getValue(gv.e[i][2])

\* A table holding both the integer key 1 and the string key "1" was read.
CollidingKeysSeen ==
  /\ mpc = "read"
  /\ {GNum(1), GStr("1")} \subseteq KeysOf(gv)
  /\ back.t = "object"
  /\ Len(back.e) < Len(gv.e)

\* A sparse integer table was read back as a record.
SparseTableSeen ==
  /\ mpc = "read"
  /\ KeysOf(gv) = {GNum(1), GNum(3)}
  /\ back.t = "object"

\* The fallback value of a runner method.
Fallback(op, state) ==
  CASE op = "init" -> getDefaultState
    [] op = "onInput" -> FailClosed(state)
    [] op = "getHint" -> HStr("")
    [] OTHER -> state

\* C14: a guest return value without host representation (a function) is
\* treated as a failed call: callFunction yields null and every runner
\* method returns its fallback value.
UnmarshalableIsFailure ==
  (/\ last.op \in RunnerOps
   /\ ~GuestCallFails(engines[last.eng].game, last.op)
   /\ lua_getfield(engines[last.eng].game, last.op).f = "function") =>
    /\ ~last.threw
    /\ last.raw = HNull
    /\ last.value = Fallback(last.op, last.state)

\* Game.onInput returned a function and onInput failed closed.
FunctionReturnSeen ==
  /\ last.op = "onInput"
  /\ last.path = "ok"
  /\ lua_getfield(engines[last.eng].game, "onInput") = GFn("function")
  /\ last.value = FailClosed(last.state)

\* What method op of a runner returns on interpreter e.
MethodValue(op, e, state, input) ==
  CASE op = "init" -> runnerInit(e).value
    [] op = "start" -> runnerStart(e, state).value
    [] op = "onInput" -> runnerOnInput(e, state, input).value
    [] op = "getNextChallenge" -> runnerGetNextChallenge(e, state).value
    [] OTHER -> runnerGetHint(e, state).value

\* C15: a call on one runner leaves the engine of every other runner as it
\* was, and its result is determined by the runner's own engine alone.
RunnerIsolation ==
  [][last'.op \in RunnerOps =>
       /\ \A q \in DOMAIN engines :
            q # last'.eng => engines'[q] = engines[q]
       /\ last'.value =
            MethodValue(last'.op, engines[last'.eng], last'.state, last'.input)
    ]_vars

\* Two counting runners are alive; the first has been called twice, and the
\* first call on the second one still returns the score 1.
IsolatedCountersSeen ==
  /\ runners = {1, 2}
  /\ engines[1].counter = 2
  /\ engines[2].counter = 1
  /\ last.eng = 2
  /\ last.op = "init"
  /\ last.value = HObj(<<<<"score", HNum(1)>>>>)

\* C16: callFunction leaves the guest stack at the depth it had before the
\* call, on every exit path.
StackDepthRestored ==
  [][last'.op \in RunnerOps =>
       Len(engines'[last'.eng].stack) = Len(engines[last'.eng].stack)]_vars

\* C17: a script that loads without error yields a runner even when it
\* defines no global Game, and a later call whose first segment is nil or
\* whose final segment is not a function returns null without throwing.
MissingGameDetectedAtCall ==
  /\ (last.op = "create" /\ last.load = "ok") =>
       (last.value # HNull /\ last.eng \in runners)
  /\ (/\ last.op \in RunnerOps
      /\ \/ engines[last.eng].game.t = "nil"
         \/ /\ engines[last.eng].game.t = "table"
            /\ lua_getfield(engines[last.eng].game, last.op).t # "function") =>
       /\ ~last.threw
       /\ last.raw = HNull
       /\ last.path \in {"nil", "notfunction"}
       /\ last.value = Fallback(last.op, last.state)

\* A runner exists for the default template, which leaves no global Game
\* (the table it returned is all its stack holds), and its init found
\* Game to be nil.
MissingGameCallSeen ==
  /\ last.op = "init"
  /\ last.eng \in runners
  /\ engines[last.eng].game = GNil
  /\ engines[last.eng].stack = <<TemplateTable>>
  /\ last.path = "nil"
  /\ last.value = getDefaultState

\* The number of calls of method op in the round's call log.
CallCount(calls, op) == Cardinality({i \in DOMAIN calls : calls[i] = op})

\* C18: in every round of the solo game loop Game.init is called once, then
\* Game.start once, both before the first onInput of the round, and
\* handleSubmit calls onInput only with a runner and a game state set.
LifecycleOrder ==
  LET c == screen.calls
  IN /\ CallCount(c, "init") <= 1
     /\ CallCount(c, "start") <= 1
     /\ \A i \in DOMAIN c :
          c[i] = "start" => \E j \in 1..(i - 1) : c[j] = "init"
     /\ \A i \in DOMAIN c :
          c[i] \in {"onInput", "getNextChallenge"} =>
            \E j \in 1..(i - 1) : c[j] = "start"
     /\ (screen.luaRunner # 0 /\ screen.round >= 1) =>
          (CallCount(c, "init") = 1 /\ CallCount(c, "start") = 1)
     /\ CallCount(c, "onInput") > 0 =>
          (screen.luaRunner # 0 /\ screen.luaGameState # HNull)

\* A submission has reached the script in a round started by Play Again.
ReplayRoundInputSeen ==
  /\ screen.round = 2
  /\ screen.ev = "submitLua"
  /\ screen.calls[1] = "init"
  /\ screen.calls[2] = "start"
  /\ CallCount(screen.calls, "onInput") = 1

\* C19: the round is Ended only with the countdown at zero, a countdown at
\* zero leads to Ended, and while the round stays Ended no submission
\* calls the runner or changes score or correctWords.
EndedIffCountdownZero ==
  /\ [](screen.isGameOver => screen.timeLeft <= 0)
  /\ ((screen.mounted /\ screen.timeLeft <= 0)
        ~> (screen.isGameOver \/ ~screen.mounted))
  /\ [][(screen.isGameOver /\ screen'.isGameOver) =>
          /\ screen'.score = screen.score
          /\ screen'.correctWords = screen.correctWords
          /\ CallCount(screen'.calls, "onInput")
               = CallCount(screen.calls, "onInput")]_vars

\* A submission arrived after the round had ended with points scored.
SubmitAfterEndSeen ==
  /\ screen.isGameOver
  /\ screen.timeLeft = 0
  /\ screen.ev = "submitIgnored"
  /\ screen.score > 0
  /\ screen.luaRunner # 0

\* C20: every round started by Play Again begins in the game state a newly
\* created runner of the same script would produce, so nothing the script
\* wrote to its globals in an earlier round shows.
ReplayStartsFresh ==
  (screen.ev = "playAgain" /\ screen.luaRunner # 0) =>
    screen.luaGameState =
      startRound(loadScript(NewInterpreter, screen.artifact.script).e).state

\* C21: once the solo game screen is gone, every engine a successful
\* createGameRunner made for it has been torn down.
EnginesDestroyedOnExit ==
  (~screen.mounted /\ screen.ev = "exit") =>
    \A r \in runners : engines[r].L = "closed"

\* C22: once a custom game's artifacts have arrived and the effect on the
\* duration has run, the countdown stands at the game's duration.
CountdownFromDuration ==
  (/\ screen.ev = "durationEffect"
   /\ screen.customGame
   /\ screen.artifact.duration # 0) =>
    screen.timeLeft = screen.artifact.duration

\* C23: the default state that init substitutes when Game.init fails has
\* the duration of the game's metadata as its timeRemaining.
DefaultStateUsesDuration ==
  (/\ screen.ev = "load"
   /\ screen.luaRunner # 0
   /\ screen.artifact.duration # 0
   /\ GuestCallFails(screen.artifact.script.game, "init")) =>
    JSGet(screen.luaGameState, "timeRemaining")
      = HNum(screen.artifact.duration)

\* C24: a submission in a custom-game round calls onInput once; a correct
\* result adds result.points to score, 1 to correctWords and asks for the
\* next challenge on result.state; any other result leaves score and
\* correctWords alone, asks for no challenge and stores result.state.
SubmissionFollowsResult ==
  [][(/\ screen.mounted
      /\ View(screen) = "play"
      /\ isCustomGame(screen)
      /\ screen.luaRunner # 0
      /\ screen'.submits = screen.submits + 1) =>
       \E inp \in SoloInputs :
         \E o \in {runnerOnInput(engines[screen.luaRunner],
                                 screen.luaGameState, inp)} :
           IF Truthy(JSGet(o.value, "correct"))
           THEN /\ screen'.score = screen.score + JSGet(o.value, "points").n
                /\ screen'.correctWords = screen.correctWords + 1
                /\ screen'.calls
                     = screen.calls \o <<"onInput", "getNextChallenge">>
                /\ screen'.luaGameState =
                     runnerGetNextChallenge(
                       After(engines[screen.luaRunner], o),
                       JSGet(o.value, "state")).value
           ELSE /\ screen'.score = screen.score
                /\ screen'.correctWords = screen.correctWords
                /\ screen'.calls = Append(screen.calls, "onInput")
                /\ screen'.luaGameState = JSGet(o.value, "state")
    ]_vars

\* Two correct submissions have been scored in a custom-game round.
TwoCorrectSubmissionsSeen ==
  /\ screen.ev = "submitLua"
  /\ screen.luaRunner # 0
  /\ screen.score = 20
  /\ screen.correctWords = 2
  /\ CallCount(screen.calls, "onInput") = 2

\* C25: when a custom-game round with submissions has ended, the score on
\* display is the score field of the last game state the runner returned.
FinalScoreFromGameState ==
  (/\ screen.mounted
   /\ View(screen) = "over"
   /\ isCustomGame(screen)
   /\ screen.luaRunner # 0
   /\ CallCount(screen.calls, "onInput") > 0
   /\ JSGet(screen.luaGameState, "score").t = "number") =>
    JSGet(screen.luaGameState, "score") = HNum(screen.score)

\* C27: the solo countdown never goes below 0, a timer tick lowers it by
\* exactly 1, and no step that hands a runner result to the screen changes
\* it.
CountdownOwnedByHost ==
  /\ [](screen.timeLeft >= 0)
  /\ [][screen' # screen =>
          /\ screen'.ev = "tick" => screen'.timeLeft = screen.timeLeft - 1
          /\ screen'.ev \in {"load", "loadFailed", "submitLua",
                             "submitBuiltIn", "submitIgnored"} =>
               screen'.timeLeft = screen.timeLeft
          /\ screen'.ev = "playAgain" =>
               screen'.timeLeft = DurationOrDefault(screen)
          /\ screen'.timeLeft < screen.timeLeft =>
               screen'.ev \in {"tick", "durationEffect"}]_vars

\* The countdown has run down to 0 in a round in which every runner call
\* failed.
CountdownWithFailingRunnerSeen ==
  /\ screen.ev = "tick"
  /\ screen.timeLeft = 0
  /\ screen.luaRunner # 0
  /\ screen.artifact.script.game = GameOf("error")
  /\ CallCount(screen.calls, "onInput") > 0

\* C28: lua_close runs at most once per interpreter, destroy on a destroyed
\* interpreter changes nothing, and a call on an interpreter that was never
\* loaded or has been destroyed yields null without throwing, so that the
\* runner method returns its fallback.
DestroyIdempotentCallsFailSoft ==
  /\ \A r \in DOMAIN engines :
       /\ engines[r].closes <= 1
       /\ destroy(destroy(engines[r])) = destroy(engines[r])
       /\ engines[r].L = "closed" => destroy(engines[r]) = engines[r]
  /\ (/\ last.op \in RunnerOps
      /\ \/ ~engines[last.eng].initialized
         \/ engines[last.eng].L = "closed") =>
       /\ ~last.threw
       /\ last.raw = HNull
       /\ last.value = Fallback(last.op, last.state)

\* A method was called on an interpreter that had been loaded and then
\* destroyed.
CallAfterDestroySeen ==
  /\ last.op = "onInput"
  /\ engines[last.eng].initialized
  /\ engines[last.eng].L = "closed"
  /\ engines[last.eng].closes = 1
  /\ last.path = "exception"

\* The host form of a scalar field of the table Game.onInput returned.
FieldOr(tab, name, default) ==
  IF lua_getfield(tab, name).t = "nil" THEN default
  ELSE CASE lua_getfield(tab, name).t = "boolean" ->
              HBool(lua_getfield(tab, name).b)
         [] lua_getfield(tab, name).t = "number" ->
              HNum(lua_getfield(tab, name).n)
         [] OTHER -> HStr(lua_getfield(tab, name).s)

\* C29: when Game.onInput returns a table, correct and points of the
\* runner's result are the table's fields when present and otherwise false
\* and 0.
OnInputFieldsFromTable ==
  (/\ last.op = "onInput"
   /\ last.path = "ok"
   /\ GuestReturn(engines[last.eng].game, "onInput",
                  <<last.state, HStr(last.input)>>).t = "table"
   /\ last.raw.t = "object") =>
    LET g == GuestReturn(engines[last.eng].game, "onInput",
                         <<last.state, HStr(last.input)>>)
    IN /\ JSGet(last.value, "correct") = FieldOr(g, "correct", HBool(FALSE))
       /\ JSGet(last.value, "points") = FieldOr(g, "points", HNum(0))

\* C26: endGame is called at most once in a round of the multiplayer
\* screen, and the score passed to it is the score accumulated in the round.
EndGameReportsScore ==
  /\ [](play.endCalls <= 1)
  /\ [][play'.endCalls = play.endCalls + 1 =>
          play'.reported = play.score]_vars

\* C30: after any interleaving of joinSession calls (and of the other calls
\* that write the session list) no session holds more than 4 players:
\* neither in the session list, nor on the server, nor the current
\* session, nor a session a call is about to write.
SessionAtMostFourPlayers ==
  /\ \A i \in DOMAIN ctx.sessions :
       Len(ctx.sessions[i].players) <= MaxPlayers
  /\ \A i \in DOMAIN ctx.server :
       Len(ctx.server[i].players) <= MaxPlayers
  /\ Len(ctx.currentSession.players) <= MaxPlayers
  /\ \A c \in ctx.calls : Len(c.session.players) <= MaxPlayers

\* Two joinSession calls read the same session of three players; the second
\* to finish has overwritten a list that was already full.
OverlappingJoinsOnFullSessionSeen ==
  /\ ctx.ev = "joinDone"
  /\ ctx.stale
  /\ ctx.joins = 2
  /\ ctx.calls = {}
  /\ \E i \in DOMAIN ctx.sessions : Len(ctx.sessions[i].players) = MaxPlayers

====
